---------------------------- MODULE Spec2Model ----------------------------
(***************************************************************************)
(* Partially persistent stacks of partial-persistence.py: NaiveStack       *)
(* (one snapshot per version), SequenceStack (log of update operations,    *)
(* replayed from empty) and ReversibleSequenceStack (log of operation /    *)
(* reverse-operation pairs plus a cached stack and its version).           *)
(*                                                                         *)
(* One instance of each class is driven by the same calls.  A Python list  *)
(* is a TLA+ sequence, bottom of the stack first; Python index i of a list *)
(* is TLA+ index i + 1.  A raised IndexError is a result of kind           *)
(* "IndexError"; the state it leaves behind is what the code had assigned  *)
(* before the raise.                                                       *)
(***************************************************************************)
EXTENDS Integers, Sequences, FiniteSets, TLC

VARIABLES
    stacks,     \* NaiveStack.stacks: the list of snapshots
    sequence,   \* SequenceStack.sequence: the list of update operations
    rsequence,  \* ReversibleSequenceStack.sequence: list of (op, rev_op)
    stack,      \* ReversibleSequenceStack.stack: most recently read version
    version,    \* ReversibleSequenceStack.version: its version number
    call,       \* the last call made and its arguments
    ret,        \* what that call returned or raised, per class
    script,     \* the module-level driver's list of push / pop calls
    phase,      \* the driver's position: which loop it is in
    i,          \* the driver's loop variable
    printed,    \* the lines the driver has printed: <<i, content>>
    held,       \* <<v>> once the caller keeps the list read_version(v) of
                \* the ReversibleSequenceStack returned, <<>> before
    threads,    \* per thread calling read_version: the line it is at, its
                \* argument, its local update_operation, what it returned
    exclusive   \* TRUE when the callers admit one call at a time

vars == <<stacks, sequence, rsequence, stack, version, call, ret,
          script, phase, i, printed, held, threads, exclusive>>

stackVars == <<stacks, sequence, rsequence, stack, version>>
driverVars == <<script, phase, i, printed>>
threadVars == <<threads, exclusive>>

-----------------------------------------------------------------------------
(* Bounds of the model *)

MaxOps == 3       \* calls of push / pop made on an instance
MaxOut == 1       \* out-of-range versions tried: -MaxOut .. latest + MaxOut
MaxScript == 6    \* length of the driver scripts drawn
MaxLog == 2       \* push / pop calls made before the threads' reads
MaxSteps == 3     \* loop iterations followed per read_version call (two
                  \* racing calls can undo each other's steps for ever)

Values == {1, 2}                 \* values pushed by the free caller
ScenarioValues == {1, 2, 3, 7}   \* values pushed by the driver

-----------------------------------------------------------------------------
(* Python lists *)

Min(a, b) == IF a < b THEN a ELSE b
Max(a, b) == IF a > b THEN a ELSE b

\* list[i] raises IndexError unless -len <= i < len
PyValid(list, idx) == idx >= -Len(list) /\ idx < Len(list)

\* list[i], negative i counting from the end
PyIndex(list, idx) ==
    IF idx >= 0 THEN list[idx + 1] ELSE list[Len(list) + idx + 1]

\* list[:n], which never raises: n is clamped, negative n counts from the end
PySlice(list, n) ==
    SubSeq(list, 1, IF n >= 0 THEN Min(n, Len(list)) ELSE Max(Len(list) + n, 0))

\* list without its last element (list.pop() on a non-empty list)
Front(list) == SubSeq(list, 1, Len(list) - 1)

Last(list) == list[Len(list)]

-----------------------------------------------------------------------------
(* Update operations: the two kinds of lambda the code stores *)

\* lambda stack: stack.append(value)
PushOp(value) == [op |-> "push", value |-> value]

\* lambda stack: stack.pop()
PopOp == [op |-> "pop", value |-> 0]

\* update_operation(stack): the list afterwards, or err when pop() raises
\* IndexError on an empty list (the list is then left as it was)
Apply(operation, list) ==
    IF operation.op = "push"
    THEN [err |-> FALSE, stack |-> Append(list, operation.value)]
    ELSE IF list = <<>>
         THEN [err |-> TRUE, stack |-> list]
         ELSE [err |-> FALSE, stack |-> Front(list)]

-----------------------------------------------------------------------------
(* Results of a call *)

NoCall == [kind |-> "nocall", list |-> <<>>, val |-> 0]
Raised == [kind |-> "IndexError", list |-> <<>>, val |-> 0]
RetNone == [kind |-> "None", list |-> <<>>, val |-> 0]
RetList(list) == [kind |-> "list", list |-> list, val |-> 0]
RetVal(value) == [kind |-> "value", list |-> <<>>, val |-> value]

\* result[index] of a call that returned a list
Subscript(result, idx) ==
    IF result.kind # "list" THEN result
    ELSE IF PyValid(result.list, idx) THEN RetVal(PyIndex(result.list, idx))
    ELSE Raised

\* the indices tried on a list: every valid one and the first invalid
\* one on either side
Indices(list) == (-Len(list) - 1) .. Len(list)

Call(op, obj, v, idx, value) ==
    [op |-> op, obj |-> obj, version |-> v, index |-> idx, value |-> value]

-----------------------------------------------------------------------------
(* NaiveStack *)

\* push without the .copy(): the latest snapshot itself is appended to
NaivePushNoCopy(ss, value) ==
    Append(Append(Front(ss), Append(Last(ss), value)), Append(Last(ss), value))

NaivePush(ss, value) == Append(ss, Append(Last(ss), value))

\* new_stack.pop() raises before anything is appended to self.stacks
NaivePop(ss) ==
    IF Last(ss) = <<>>
    THEN [stacks |-> ss, ret |-> Raised]
    ELSE [stacks |-> Append(ss, Front(Last(ss))), ret |-> RetVal(Last(Last(ss)))]

NaiveRead(ss, v, idx) ==
    IF ~PyValid(ss, v) THEN Raised
    ELSE Subscript(RetList(PyIndex(ss, v)), idx)

-----------------------------------------------------------------------------
(* SequenceStack *)

SeqPush(seq, value) == Append(seq, PushOp(value))

\* appends whatever the content is; the value of list.append(...) is None
SeqPop(seq) == [sequence |-> Append(seq, PopOp), ret |-> RetNone]

RECURSIVE Replay(_, _)
\* the for loop of read_version: apply the operations in order
Replay(ops, list) ==
    IF ops = <<>> THEN RetList(list)
    ELSE LET r == Apply(Head(ops), list)
         IN  IF r.err THEN Raised ELSE Replay(Tail(ops), r.stack)

SeqReadVersion(seq, v) == Replay(PySlice(seq, v), <<>>)

SeqRead(seq, v, idx) == Subscript(SeqReadVersion(seq, v), idx)

-----------------------------------------------------------------------------
(* ReversibleSequenceStack *)

\* the entry before the cursor taken where the entry at the cursor is meant
ForwardOpOffByOne(seq, ver) == PyIndex(seq, ver - 1)[1]

\* self.sequence[self.version][0]
ForwardOp(seq, ver) == PyIndex(seq, ver)[1]

\* the forward operation taken where the reverse one is meant
ReverseOpIsForward(seq, ver) == PyIndex(seq, ver - 1)[1]

\* self.sequence[self.version-1][1]
ReverseOp(seq, ver) == PyIndex(seq, ver - 1)[2]

Cursor(list, ver, err) == [stack |-> list, version |-> ver, err |-> err]

RECURSIVE StepForward(_, _, _, _)
\* while self.version < version: ...
StepForward(seq, list, ver, target) ==
    IF ~(ver < target) THEN Cursor(list, ver, FALSE)
    ELSE IF ~PyValid(seq, ver) THEN Cursor(list, ver, TRUE)
    ELSE LET r == Apply(ForwardOp(seq, ver), list)
         IN  IF r.err THEN Cursor(list, ver + 1, TRUE)
             ELSE StepForward(seq, r.stack, ver + 1, target)

RECURSIVE StepBackward(_, _, _, _)
\* while self.version > version: ...
StepBackward(seq, list, ver, target) ==
    IF ~(ver > target) THEN Cursor(list, ver, FALSE)
    ELSE IF ~PyValid(seq, ver - 1) THEN Cursor(list, ver, TRUE)
    ELSE LET r == Apply(ReverseOp(seq, ver), list)
         IN  IF r.err THEN Cursor(list, ver - 1, TRUE)
             ELSE StepBackward(seq, r.stack, ver - 1, target)

\* read_version without its second loop
RevReadVersionForwardOnly(seq, list, ver, target) ==
    IF target = ver THEN Cursor(list, ver, FALSE)
    ELSE StepForward(seq, list, ver, target)

\* a cache check that never hits
CacheMiss(ver, target) == FALSE

\* if version == self.version
CacheHit(ver, target) == target = ver

\* read_version: the cursor it leaves and whether it raised
RevReadVersion(seq, list, ver, target) ==
    IF CacheHit(ver, target) THEN Cursor(list, ver, FALSE)
    ELSE LET f == StepForward(seq, list, ver, target)
         IN  IF f.err THEN f
             ELSE StepBackward(seq, f.stack, f.version, target)

RevResult(c) == IF c.err THEN Raised ELSE RetList(c.stack)

\* return self.stack hands out the list object itself, which the loops
\* change in place and which is never rebound: what a caller sees through
\* a list it was returned is the current self.stack
HeldList(list) == list

\* push storing the operation and its reverse as two entries
RevPushTwoEntries(seq, value) ==
    Append(Append(seq, <<PushOp(value), PopOp>>), <<PopOp, PushOp(value)>>)

\* push storing the operation itself as its reverse
RevPushNoReverse(seq, value) == Append(seq, <<PushOp(value), PushOp(value)>>)

RevPush(seq, value) == Append(seq, <<PushOp(value), PopOp>>)

\* pop that takes the top only if there is one, and appends either way
RevPopUnguarded(seq, list, ver) ==
    LET c == RevReadVersion(seq, list, ver, Len(seq))
        top == Subscript(RevResult(c), -1)
    IN  [sequence |-> Append(seq, <<PopOp, PushOp(top.val)>>),
         cursor |-> c, ret |-> RetNone]

\* pop that takes the top of the cached stack without reading the latest
\* version first
RevPopStaleTop(seq, list, ver) ==
    LET c == Cursor(list, ver, FALSE)
        top == Subscript(RevResult(c), -1)
    IN  IF top.kind # "value"
        THEN [sequence |-> seq, cursor |-> c, ret |-> Raised]
        ELSE [sequence |-> Append(seq, <<PopOp, PushOp(top.val)>>),
              cursor |-> c, ret |-> RetNone]

\* value = self.read_version(len(self.sequence))[-1], then the append
RevPop(seq, list, ver) ==
    LET c == RevReadVersion(seq, list, ver, Len(seq))
        top == Subscript(RevResult(c), -1)
    IN  IF top.kind # "value"
        THEN [sequence |-> seq, cursor |-> c, ret |-> Raised]
        ELSE [sequence |-> Append(seq, <<PopOp, PushOp(top.val)>>),
              cursor |-> c, ret |-> RetNone]

-----------------------------------------------------------------------------
(* Threads calling read_version *)

Threads == {1, 2}

\* update_operation before its first assignment
NoOp == [op |-> "none", value |-> 0]

Thread(pc, target, from, operation, steps, result) ==
    [pc |-> pc, target |-> target, from |-> from, update_operation |-> operation,
     steps |-> steps, result |-> result]

\* a thread that has not called yet
Idle == Thread("idle", 0, 0, NoOp, 0, NoCall)

-----------------------------------------------------------------------------
(* The caller: the same push and pop calls on the three instances, and
   reads of one instance at a time *)

Init ==
    /\ stacks = << <<>> >>
    /\ sequence = <<>>
    /\ rsequence = <<>>
    /\ stack = <<>>
    /\ version = 0
    /\ call = Call("init", "all", 0, 0, 0)
    /\ ret = [naive |-> NoCall, seq |-> NoCall, rev |-> NoCall]
    /\ script = <<>>
    /\ phase = "idle"
    /\ i = 0
    /\ printed = <<>>
    /\ held = <<>>
    /\ threads = [t \in Threads |-> Idle]
    /\ exclusive = TRUE

Push ==
    \E value \in Values :
        /\ Len(sequence) < MaxOps
        /\ stacks' = NaivePush(stacks, value)
        /\ sequence' = SeqPush(sequence, value)
        /\ rsequence' = RevPush(rsequence, value)
        /\ UNCHANGED <<stack, version>>
        /\ call' = Call("push", "all", 0, 0, value)
        /\ ret' = [naive |-> RetNone, seq |-> RetNone, rev |-> RetNone]
        /\ UNCHANGED <<driverVars, held, threadVars>>

Pop ==
    /\ Len(sequence) < MaxOps
    /\ LET n == NaivePop(stacks)
           s == SeqPop(sequence)
           r == RevPop(rsequence, stack, version)
       IN  /\ stacks' = n.stacks
           /\ sequence' = s.sequence
           /\ rsequence' = r.sequence
           /\ stack' = r.cursor.stack
           /\ version' = r.cursor.version
           /\ ret' = [naive |-> n.ret, seq |-> s.ret, rev |-> r.ret]
    /\ call' = Call("pop", "all", 0, 0, 0)
    /\ UNCHANGED <<driverVars, held, threadVars>>

NaiveReadCall ==
    \E v \in 0 .. Len(stacks) - 1 : \E idx \in Indices(stacks[v + 1]) :
        /\ call' = Call("read", "naive", v, idx, 0)
        /\ ret' = [naive |-> NaiveRead(stacks, v, idx), seq |-> NoCall, rev |-> NoCall]
        /\ UNCHANGED stackVars
        /\ UNCHANGED <<driverVars, held, threadVars>>

SeqReadVersionCall ==
    \E v \in 0 .. Len(sequence) :
        /\ call' = Call("read_version", "seq", v, 0, 0)
        /\ ret' = [naive |-> NoCall, seq |-> SeqReadVersion(sequence, v), rev |-> NoCall]
        /\ UNCHANGED stackVars
        /\ UNCHANGED <<driverVars, held, threadVars>>

SeqReadCall ==
    \E v \in 0 .. Len(sequence) : \E idx \in Indices(SeqReadVersion(sequence, v).list) :
        /\ call' = Call("read", "seq", v, idx, 0)
        /\ ret' = [naive |-> NoCall, seq |-> SeqRead(sequence, v, idx), rev |-> NoCall]
        /\ UNCHANGED stackVars
        /\ UNCHANGED <<driverVars, held, threadVars>>

RevReadVersionAt(v) ==
    LET c == RevReadVersion(rsequence, stack, version, v)
    IN  /\ stack' = c.stack
        /\ version' = c.version
        /\ call' = Call("read_version", "rev", v, 0, 0)
        /\ ret' = [naive |-> NoCall, seq |-> NoCall, rev |-> RevResult(c)]
        /\ UNCHANGED <<stacks, sequence, rsequence>>
        /\ UNCHANGED <<driverVars, threadVars>>

RevReadVersionCall ==
    \E v \in 0 .. Len(rsequence) : RevReadVersionAt(v) /\ UNCHANGED held

RevReadCall ==
    \E v \in 0 .. Len(rsequence) :
        LET c == RevReadVersion(rsequence, stack, version, v)
        IN  \E idx \in Indices(c.stack) :
            /\ stack' = c.stack
            /\ version' = c.version
            /\ call' = Call("read", "rev", v, idx, 0)
            /\ ret' = [naive |-> NoCall, seq |-> NoCall,
                       rev |-> Subscript(RevResult(c), idx)]
            /\ UNCHANGED <<stacks, sequence, rsequence>>
            /\ UNCHANGED <<driverVars, held, threadVars>>

Next ==
    \/ Push
    \/ Pop
    \/ NaiveReadCall
    \/ SeqReadVersionCall
    \/ SeqReadCall
    \/ RevReadVersionCall
    \/ RevReadCall

Spec == Init /\ [][Next]_vars

-----------------------------------------------------------------------------
(* Calls with a version outside 0 .. latest *)

OutVersions(latest) == ((-MaxOut) .. -1) \cup ((latest + 1) .. (latest + MaxOut))

SeqReadVersionOut ==
    \E v \in OutVersions(Len(sequence)) :
        /\ call' = Call("read_version", "seq", v, 0, 0)
        /\ ret' = [naive |-> NoCall, seq |-> SeqReadVersion(sequence, v), rev |-> NoCall]
        /\ UNCHANGED stackVars
        /\ UNCHANGED <<driverVars, held, threadVars>>

RevReadVersionOut ==
    \E v \in OutVersions(Len(rsequence)) : RevReadVersionAt(v) /\ UNCHANGED held

NextOut ==
    \/ Next
    \/ SeqReadVersionOut
    \/ RevReadVersionOut

SpecOut == Init /\ [][NextOut]_vars

-----------------------------------------------------------------------------
(* A caller that keeps the list read_version returned *)

\* kept = rs.read_version(v)
RevReadVersionKeep ==
    \E v \in 0 .. Len(rsequence) :
        /\ RevReadVersionAt(v)
        /\ held' = IF ret'.rev.kind = "list" THEN <<v>> ELSE held

NextKeep ==
    \/ Push
    \/ Pop
    \/ RevReadVersionKeep

SpecKeep == Init /\ [][NextKeep]_vars

-----------------------------------------------------------------------------
(* The module-level driver: a script of push and pop calls on one
   ReversibleSequenceStack, then every version read in ascending and in
   descending order.  The script of the source is Scenario. *)

Scenario == <<PushOp(1), PushOp(2), PushOp(3), PopOp, PopOp, PushOp(7)>>

ScriptOps == {PushOp(value) : value \in ScenarioValues} \cup {PopOp}

\* scripts in which every pop finds a non-empty stack
Scripts ==
    {s \in UNION {[1 .. n -> ScriptOps] : n \in 0 .. MaxScript} :
        Replay(s, <<>>).kind = "list"}

InitDriver ==
    /\ stacks = << <<>> >>
    /\ sequence = <<>>
    /\ rsequence = <<>>
    /\ stack = <<>>
    /\ version = 0
    /\ call = Call("init", "all", 0, 0, 0)
    /\ ret = [naive |-> NoCall, seq |-> NoCall, rev |-> NoCall]
    /\ script \in Scripts
    /\ phase = IF script = <<>> THEN "ascend" ELSE "mutate"
    /\ i = 0
    /\ printed = <<>>
    /\ held = <<>>
    /\ threads = [t \in Threads |-> Idle]
    /\ exclusive = TRUE

\* rs.push(...) / rs.pop(): the next call of the script
DriverMutate ==
    /\ phase = "mutate"
    /\ LET operation == script[i + 1]
           p == RevPop(rsequence, stack, version)
       IN  IF operation.op = "push"
           THEN /\ rsequence' = RevPush(rsequence, operation.value)
                /\ UNCHANGED <<stack, version>>
                /\ phase' = IF i + 1 = Len(script) THEN "ascend" ELSE "mutate"
           ELSE /\ rsequence' = p.sequence
                /\ stack' = p.cursor.stack
                /\ version' = p.cursor.version
                /\ phase' = IF p.ret.kind = "IndexError" THEN "raised"
                            ELSE IF i + 1 = Len(script) THEN "ascend" ELSE "mutate"
    /\ i' = IF phase' = "mutate" THEN i + 1 ELSE 0
    /\ UNCHANGED <<stacks, sequence, call, ret, script, printed, held, threadVars>>

\* print(i, rs.read_version(i))
DriverPrint ==
    LET c == RevReadVersion(rsequence, stack, version, i)
    IN  /\ stack' = c.stack
        /\ version' = c.version
        /\ IF c.err
           THEN /\ phase' = "raised"
                /\ UNCHANGED <<i, printed>>
           ELSE /\ printed' = Append(printed, <<i, c.stack>>)
                /\ IF phase = "ascend"
                   THEN IF i < Len(script)
                        THEN i' = i + 1 /\ phase' = "ascend"
                        ELSE i' = Len(script) /\ phase' = "descend"
                   ELSE IF i > 0
                        THEN i' = i - 1 /\ phase' = "descend"
                        ELSE i' = i /\ phase' = "done"
        /\ UNCHANGED <<stacks, sequence, rsequence, call, ret, script, held, threadVars>>

\* for i in range(0, 7)
DriverAscend == phase = "ascend" /\ DriverPrint

\* for i in range(6, -1, -1)
DriverDescend == phase = "descend" /\ DriverPrint

NextDriver ==
    \/ DriverMutate
    \/ DriverAscend
    \/ DriverDescend

SpecDriver == InitDriver /\ [][NextDriver]_vars

-----------------------------------------------------------------------------
(* read_version of ReversibleSequenceStack line by line, called once by
   each of two threads on an instance whose log and cursor earlier calls
   have left.  With exclusive access a call starts only when no other call
   is under way; without it the lines of the two calls interleave. *)

LogOps == {PushOp(value) : value \in Values} \cup {PopOp}

RevState(seq, list, ver) == [sequence |-> seq, stack |-> list, version |-> ver]

RECURSIVE Built(_, _)
\* the instance after a list of push / pop calls (a pop that raises
\* leaves the log as it was)
Built(ops, rs) ==
    IF ops = <<>> THEN rs
    ELSE LET p == RevPop(rs.sequence, rs.stack, rs.version)
         IN  Built(Tail(ops),
                   IF Head(ops).op = "push"
                   THEN RevState(RevPush(rs.sequence, Head(ops).value),
                                 rs.stack, rs.version)
                   ELSE RevState(p.sequence, p.cursor.stack, p.cursor.version))

InitThreads ==
    /\ stacks = << <<>> >>
    /\ sequence = <<>>
    /\ \E ops \in UNION {[1 .. n -> LogOps] : n \in 0 .. MaxLog} :
         LET b == Built(ops, RevState(<<>>, <<>>, 0))
         IN  \E c \in 0 .. Len(b.sequence) :
               LET r == RevReadVersion(b.sequence, b.stack, b.version, c)
               IN  /\ rsequence = b.sequence
                   /\ stack = r.stack
                   /\ version = r.version
    /\ call = Call("init", "all", 0, 0, 0)
    /\ ret = [naive |-> NoCall, seq |-> NoCall, rev |-> NoCall]
    /\ script = <<>>
    /\ phase = "idle"
    /\ i = 0
    /\ printed = <<>>
    /\ held = <<>>
    /\ threads = [t \in Threads |-> Idle]
    /\ exclusive \in BOOLEAN

\* the thread is inside read_version
Busy(t) == threads[t].pc \notin {"idle", "done", "raised"}

threadFrame == <<stacks, sequence, rsequence, call, ret, driverVars, held, exclusive>>

\* rs.read_version(v) is called
ReadVersionCall(t) ==
    /\ threads[t].pc = "idle"
    /\ exclusive => \A u \in Threads \ {t} : ~Busy(u)
    /\ \E v \in 0 .. Len(rsequence) :
           threads' = [threads EXCEPT ![t] = Thread("L127", v, version, NoOp, 0, NoCall)]
    /\ UNCHANGED <<stack, version, threadFrame>>

\* line 127: if version == self.version: return self.stack
CheckCache(t) ==
    /\ threads[t].pc = "L127"
    /\ threads' = [threads EXCEPT ![t] =
           IF CacheHit(version, @.target)
           THEN [@ EXCEPT !.pc = "done", !.result = RetList(stack)]
           ELSE [@ EXCEPT !.pc = "L129"]]
    /\ UNCHANGED <<stack, version, threadFrame>>

\* line 129: while self.version < version
TestForward(t) ==
    /\ threads[t].pc = "L129"
    /\ threads' = [threads EXCEPT ![t].pc =
           IF version < threads[t].target THEN "L130" ELSE "L134"]
    /\ UNCHANGED <<stack, version, threadFrame>>

\* line 130: update_operation = self.sequence[self.version][0]
FetchForward(t) ==
    /\ threads[t].pc = "L130"
    /\ threads[t].steps < MaxSteps
    /\ threads' = [threads EXCEPT ![t] =
           IF PyValid(rsequence, version)
           THEN [@ EXCEPT !.pc = "L131",
                          !.update_operation = ForwardOp(rsequence, version)]
           ELSE [@ EXCEPT !.pc = "raised", !.result = Raised]]
    /\ UNCHANGED <<stack, version, threadFrame>>

\* line 131: self.version += 1
IncVersion(t) ==
    /\ threads[t].pc = "L131"
    /\ version' = version + 1
    /\ threads' = [threads EXCEPT ![t].pc = "L132"]
    /\ UNCHANGED <<stack, threadFrame>>

\* line 132: update_operation(self.stack)
ApplyForward(t) ==
    /\ threads[t].pc = "L132"
    /\ LET r == Apply(threads[t].update_operation, stack)
       IN  /\ stack' = r.stack
           /\ threads' = [threads EXCEPT ![t] =
                  IF r.err
                  THEN [@ EXCEPT !.pc = "raised", !.result = Raised]
                  ELSE [@ EXCEPT !.pc = "L129", !.steps = @ + 1]]
    /\ UNCHANGED <<version, threadFrame>>

\* line 134: while self.version > version
TestBackward(t) ==
    /\ threads[t].pc = "L134"
    /\ threads' = [threads EXCEPT ![t].pc =
           IF version > threads[t].target THEN "L135" ELSE "L139"]
    /\ UNCHANGED <<stack, version, threadFrame>>

\* line 135: update_operation = self.sequence[self.version-1][1]
FetchBackward(t) ==
    /\ threads[t].pc = "L135"
    /\ threads[t].steps < MaxSteps
    /\ threads' = [threads EXCEPT ![t] =
           IF PyValid(rsequence, version - 1)
           THEN [@ EXCEPT !.pc = "L136",
                          !.update_operation = ReverseOp(rsequence, version)]
           ELSE [@ EXCEPT !.pc = "raised", !.result = Raised]]
    /\ UNCHANGED <<stack, version, threadFrame>>

\* line 136: self.version -= 1
DecVersion(t) ==
    /\ threads[t].pc = "L136"
    /\ version' = version - 1
    /\ threads' = [threads EXCEPT ![t].pc = "L137"]
    /\ UNCHANGED <<stack, threadFrame>>

\* line 137: update_operation(self.stack)
ApplyBackward(t) ==
    /\ threads[t].pc = "L137"
    /\ LET r == Apply(threads[t].update_operation, stack)
       IN  /\ stack' = r.stack
           /\ threads' = [threads EXCEPT ![t] =
                  IF r.err
                  THEN [@ EXCEPT !.pc = "raised", !.result = Raised]
                  ELSE [@ EXCEPT !.pc = "L134", !.steps = @ + 1]]
    /\ UNCHANGED <<version, threadFrame>>

\* line 139: return self.stack
Return(t) ==
    /\ threads[t].pc = "L139"
    /\ threads' = [threads EXCEPT ![t] =
           [@ EXCEPT !.pc = "done", !.result = RetList(stack)]]
    /\ UNCHANGED <<stack, version, threadFrame>>

NextThreads ==
    \E t \in Threads :
        \/ ReadVersionCall(t)
        \/ CheckCache(t)
        \/ TestForward(t)
        \/ FetchForward(t)
        \/ IncVersion(t)
        \/ ApplyForward(t)
        \/ TestBackward(t)
        \/ FetchBackward(t)
        \/ DecVersion(t)
        \/ ApplyBackward(t)
        \/ Return(t)

SpecThreads == InitThreads /\ [][NextThreads]_vars

\* a call that has started keeps running
FairThreads == SpecThreads /\ WF_vars(NextThreads)

-----------------------------------------------------------------------------
(* Properties *)

NaiveLatest == Len(stacks) - 1
SeqLatest == Len(sequence)
RevLatest == Len(rsequence)

\* the operations of the reversible log without their reverses
Forward(rseq) == [k \in 1 .. Len(rseq) |-> rseq[k][1]]

\* content(v) of the reversible log: entries 0 .. v-1 replayed from the
\* empty stack
Content(v) == SeqReadVersion(Forward(rsequence), v)

\* every pop so far was called on a non-empty latest content: the three
\* instances then hold the same history
PopsOnNonEmpty == sequence = Forward(rsequence)

\* what read_version(v) would return if it were called now
RevWouldRead(rseq, list, ver, v) == RevResult(RevReadVersion(rseq, list, ver, v))

\* C1: partial persistence.  In each class, no push, pop or read changes
\* what is read for a version that already exists: the snapshot stacks[v],
\* the replay SequenceStack.read_version(v) and what
\* ReversibleSequenceStack.read_version(v) returns are the same after the
\* step as before it.
C1_Persistence ==
    [][ /\ \A v \in 0 .. NaiveLatest : stacks'[v + 1] = stacks[v + 1]
        /\ \A v \in 0 .. SeqLatest :
               SeqReadVersion(sequence', v) = SeqReadVersion(sequence, v)
        /\ \A v \in 0 .. RevLatest :
               RevWouldRead(rsequence', stack', version', v)
                   = RevWouldRead(rsequence, stack, version, v) ]_vars

\* version 1 read back as the snapshot taken for it, after a later pop
C1_Witness ==
    /\ Len(rsequence) >= 3
    /\ rsequence[3][1].op = "pop"
    /\ call.op = "read_version" /\ call.obj = "rev" /\ call.version = 1
    /\ ret.rev = RetList(stacks[2])
    /\ stacks[2] # <<>>

\* C2: equivalence across designs.  After the same push and pop calls,
\* every pop on non-empty content, stacks[v], SequenceStack.read_version(v)
\* and ReversibleSequenceStack.read_version(v) are the same list for every
\* v in 0 .. latest, wherever earlier reads left the cursor.
C2_Equivalence ==
    PopsOnNonEmpty =>
        /\ NaiveLatest = SeqLatest /\ SeqLatest = RevLatest
        /\ \A v \in 0 .. RevLatest :
               /\ SeqReadVersion(sequence, v) = RetList(stacks[v + 1])
               /\ RevWouldRead(rsequence, stack, version, v) = RetList(stacks[v + 1])

\* a history with a pop in it, the cursor left behind the latest version
C2_Witness ==
    /\ PopsOnNonEmpty
    /\ Len(rsequence) >= 3
    /\ rsequence[2][1].op = "pop"
    /\ version = 1
    /\ call.op = "read" /\ call.obj = "rev"

\* C3: cursor correctness.  After ReversibleSequenceStack.read_version(v)
\* with 0 <= v <= latest, self.version is v and self.stack, which is what
\* the call returned, is the replay of log entries 0 .. v-1 from empty.
C3_CursorCorrect ==
    (call.op = "read_version" /\ call.obj = "rev") =>
        /\ version = call.version
        /\ ret.rev = RetList(stack)
        /\ Content(call.version) = RetList(stack)

\* version 1 read after a pop had moved the cursor to version 2
C3_Witness ==
    /\ call.op = "read_version" /\ call.obj = "rev" /\ call.version = 1
    /\ Len(rsequence) >= 3
    /\ rsequence[3][1].op = "pop"
    /\ stack # <<>>

Expected == << <<>>, <<1>>, <<1, 2>>, <<1, 2, 3>>, <<1, 2>>, <<1>>, <<1, 7>> >>

\* the versions the driver reads, in the order it reads them
ReadOrder == <<0, 1, 2, 3, 4, 5, 6, 6, 5, 4, 3, 2, 1, 0>>

\* C4: the driver's scenario.  After push(1), push(2), push(3), pop(),
\* pop(), push(7), every line printed by the ascending and by the descending
\* loop shows for version v the v-th list of Expected, and no call raises.
C4_Scenario ==
    script = Scenario =>
        /\ phase # "raised"
        /\ Len(printed) <= Len(ReadOrder)
        /\ \A k \in 1 .. Len(printed) :
               printed[k] = <<ReadOrder[k], Expected[ReadOrder[k] + 1]>>
        /\ phase = "done" => Len(printed) = Len(ReadOrder)

\* the driver has finished both loops on the scenario
C4_Witness ==
    /\ script = Scenario
    /\ phase = "done"
    /\ Len(printed) = Len(ReadOrder)
    /\ printed[7] = <<6, <<1, 7>> >>
    /\ printed[14] = <<0, <<>> >>

\* C5: pop() on empty latest content, NaiveStack and
\* ReversibleSequenceStack.  The call raises and latest is unchanged:
\* nothing is appended to stacks, nothing to the reversible log.
C5_PopEmptyFails ==
    [][ call'.op = "pop" =>
          /\ Last(stacks) = <<>> =>
                 ret'.naive = Raised /\ stacks' = stacks
          /\ Content(RevLatest) = RetList(<<>>) =>
                 ret'.rev = Raised /\ rsequence' = rsequence ]_vars

\* a pop that raised after the content had been pushed and popped empty
C5_Witness ==
    /\ call.op = "pop"
    /\ ret.naive = Raised /\ ret.rev = Raised
    /\ Len(stacks) = 3 /\ Len(rsequence) = 2

\* C6: pop() on empty latest content, SequenceStack.  The claim: the call
\* raises and appends nothing to the log.
C6_SeqPopEmptyFails ==
    [][ (call'.op = "pop" /\ SeqReadVersion(sequence, SeqLatest) = RetList(<<>>)) =>
            ret'.seq = Raised /\ sequence' = sequence ]_vars

\* C7: a successful pop() returns the removed value, the top of the latest
\* content before the call, in every class.
C7_PopReturnsTop ==
    [][ (call'.op = "pop" /\ PopsOnNonEmpty /\ Last(stacks) # <<>>) =>
            /\ ret'.naive = RetVal(Last(Last(stacks)))
            /\ ret'.seq = RetVal(Last(Last(stacks)))
            /\ ret'.rev = RetVal(Last(Last(stacks))) ]_vars

\* C8: version monotonicity.  In every class latest grows by exactly 1 on
\* a push and on a pop that does not raise, never shrinks or skips, and is
\* unchanged by a pop that raises and by read and read_version.
C8_Monotonic ==
    [][ LET dn == Len(stacks') - Len(stacks)
            ds == Len(sequence') - Len(sequence)
            dr == Len(rsequence') - Len(rsequence)
            Grown(r) == IF r.kind = "IndexError" THEN 0 ELSE 1
        IN  /\ {dn, ds, dr} \subseteq {0, 1}
            /\ call'.op = "push" => dn = 1 /\ ds = 1 /\ dr = 1
            /\ call'.op = "pop" =>
                   /\ dn = Grown(ret'.naive)
                   /\ ds = Grown(ret'.seq)
                   /\ dr = Grown(ret'.rev)
            /\ call'.op \in {"read", "read_version"} =>
                   dn = 0 /\ ds = 0 /\ dr = 0 ]_vars

\* a read made once latest has grown to 3 by pushes and a pop
C8_Witness ==
    /\ call.op = "read_version" /\ call.obj = "rev"
    /\ NaiveLatest = 3 /\ SeqLatest = 3 /\ RevLatest = 3
    /\ rsequence[3][1].op = "pop"

\* C9: SequenceStack.read_version(v) with v outside 0 .. latest.  The
\* claim: the call raises instead of returning a content.
C9_SeqOutOfRangeFails ==
    (call.op = "read_version" /\ call.obj = "seq"
        /\ call.version \notin 0 .. SeqLatest) => ret.seq = Raised

\* C10: ReversibleSequenceStack.read_version(v) with v outside 0 .. latest.
\* The claim: the call raises and the log, self.stack and self.version are
\* as before the call.
C10_RevOutOfRangeFails ==
    [][ (call'.op = "read_version" /\ call'.obj = "rev"
            /\ call'.version \notin 0 .. RevLatest) =>
            /\ ret'.rev = Raised
            /\ UNCHANGED <<rsequence, stack, version>> ]_vars

\* the content of version v in the instance a call was made on
ContentOf(obj, v) ==
    IF obj = "naive" THEN RetList(stacks[v + 1])
    ELSE IF obj = "seq" THEN SeqReadVersion(sequence, v)
    ELSE Content(v)

\* C11: read(v, index) with a valid version.  The claim: the call raises
\* whenever index is outside 0 .. len(content(v)) - 1, every negative index
\* included, and otherwise returns the element at that position from the
\* bottom.
C11_ReadIndexChecked ==
    (call.op = "read" /\ ContentOf(call.obj, call.version).kind = "list") =>
        LET content == ContentOf(call.obj, call.version).list
        IN  ret[call.obj] =
                IF call.index \in 0 .. Len(content) - 1
                THEN RetVal(content[call.index + 1])
                ELSE Raised

\* C14: round-trip law.  For every entry i of the reversible log, the
\* operation and then its reverse applied to content(i) give content(i)
\* again, neither raising; the reverse of a logged pop pushes the value that
\* was on top of content(i), the latest content when the pop was recorded.
C14_RoundTrip ==
    \A k \in 1 .. RevLatest :
        LET c == Content(k - 1)
            f == Apply(rsequence[k][1], c.list)
            b == Apply(rsequence[k][2], f.stack)
        IN  /\ c.kind = "list"
            /\ ~f.err /\ ~b.err
            /\ b.stack = c.list
            /\ rsequence[k][1].op = "pop" =>
                   rsequence[k][2] = PushOp(Last(c.list))
            /\ rsequence[k][1].op = "push" => rsequence[k][2] = PopOp

\* a pop recorded on content [1, 2]: its reverse pushes 2
C14_Witness ==
    /\ RevLatest = 3
    /\ rsequence[1][1] = PushOp(1)
    /\ rsequence[2][1] = PushOp(2)
    /\ rsequence[3] = <<PopOp, PushOp(2)>>
    /\ version = 0

\* C15: cursor invariant.  In every state reached by push, pop (raising
\* or not) and reads with versions in 0 .. latest, self.version is in
\* 0 .. len(self.sequence) and self.stack is the replay of log entries
\* 0 .. self.version-1 from the empty stack.
C15_CursorInvariant ==
    /\ version \in 0 .. RevLatest
    /\ RetList(stack) = Content(version)

\* the cursor left at the latest version by a pop that raised, behind a
\* pop that did not
C15_Witness ==
    /\ call.op = "pop" /\ ret.rev = Raised
    /\ RevLatest = 2 /\ version = 2
    /\ rsequence[2][1].op = "pop"
    /\ SeqLatest = 3

\* C17: materialize latest, then append.  After a pop() of
\* ReversibleSequenceStack that did not raise, self.version is the value
\* latest had at the call, self.stack is the content of that version, and
\* the log has exactly one more entry, (pop, push of the top of that
\* content).
C17_PopMaterializes ==
    [][ (call'.op = "pop" /\ ret'.rev = RetNone) =>
            /\ version' = RevLatest
            /\ RetList(stack') = Content(RevLatest)
            /\ stack' # <<>>
            /\ rsequence' = Append(rsequence, <<PopOp, PushOp(Last(stack'))>>) ]_vars

\* a pop recorded after two pushes: the cursor is at version 2
C17_Witness ==
    /\ call.op = "pop" /\ ret.rev = RetNone
    /\ RevLatest = 3 /\ version = 2
    /\ Len(stack) = 2
    /\ rsequence[3] = <<PopOp, PushOp(stack[2])>>

\* C18: push(value) of ReversibleSequenceStack appends the one entry
\* (push of value, pop) to the log and changes nothing else: self.stack,
\* self.version and the earlier entries are as before.
C18_PushFrame ==
    [][ call'.op = "push" =>
            /\ rsequence' = Append(rsequence, <<PushOp(call'.value), PopOp>>)
            /\ stack' = stack
            /\ version' = version ]_vars

\* a push made while the cursor was behind the latest version
C18_Witness ==
    /\ call.op = "push"
    /\ RevLatest = 3 /\ version = 1 /\ stack # <<>>
    /\ rsequence[3] = <<PushOp(call.value), PopOp>>

\* the number of operations of one kind among the first k of a log
Count(ops, k, kind) == Cardinality({j \in 1 .. k : ops[j].op = kind})

\* C20: log validity.  Every prefix of the reversible log has at least as
\* many pushes as pops, and no read_version(v) with 0 <= v <= latest raises
\* (no step pops from an empty list); the log of the SequenceStack driven
\* by the same calls can have a prefix with more pops than pushes.
C20_LogValid ==
    /\ \A k \in 0 .. RevLatest :
           Count(Forward(rsequence), k, "push") >= Count(Forward(rsequence), k, "pop")
    /\ \A v \in 0 .. RevLatest :
           ~RevReadVersion(rsequence, stack, version, v).err

\* the same calls have left the SequenceStack a log whose replay raises
C20_Witness ==
    /\ RevLatest = 2
    /\ rsequence[2][1].op = "pop"
    /\ \E k \in 0 .. SeqLatest :
           Count(sequence, k, "push") < Count(sequence, k, "pop")
    /\ SeqReadVersion(sequence, SeqLatest) = Raised
    /\ call.op = "read_version" /\ call.obj = "rev"

\* C12: read_version(v) returns a snapshot.  The claim: the list a caller
\* obtained from read_version(v) of the ReversibleSequenceStack is still
\* content(v) after any later push, pop or read_version(w).
C12_Snapshot ==
    held # <<>> => RetList(HeldList(stack)) = Content(held[1])

Abs(x) == IF x < 0 THEN -x ELSE x

\* C13: idempotence of read.  With one call at a time, a read_version(v)
\* made right after a read_version(v) has returned takes the return of
\* line 127: it applies no log step, leaves the log, self.stack and
\* self.version as they are and returns the same content.
C13_Idempotent ==
    [][ exclusive =>
          \A a, b \in Threads :
              (/\ a # b
               /\ threads[a].pc = "done"
               /\ threads'[b] # threads[b]
               /\ threads'[b].target = threads[a].target) =>
                  /\ UNCHANGED <<rsequence, stack, version>>
                  /\ threads'[b].pc \in {"L127", "done"}
                  /\ threads'[b].steps = 0
                  /\ threads'[b].pc = "done" =>
                         threads'[b].result = threads[a].result ]_vars

\* the first call walked two steps, the second none
C13_Witness ==
    /\ exclusive
    /\ threads[1].pc = "done" /\ threads[2].pc = "done"
    /\ threads[1].target = threads[2].target
    /\ threads[1].steps = 2 /\ threads[2].steps = 0
    /\ threads[2].from = threads[1].target
    /\ threads[1].result = threads[2].result

\* where a call under way stands: between the cursor it found and its
\* target, having applied one step per version moved, with an operation
\* of its direction in hand
OnCourse(t) ==
    LET th == threads[t]
        done == Abs(version - th.from)
    IN  /\ th.pc # "raised"
        /\ Busy(t) =>
               /\ Min(th.from, th.target) <= version
               /\ version <= Max(th.from, th.target)
               /\ th.steps = IF th.pc \in {"L132", "L137"} THEN done - 1 ELSE done
        /\ th.pc = "L131" =>
               /\ version < th.target
               /\ th.update_operation = rsequence[version + 1][1]
        /\ th.pc = "L132" =>
               /\ th.from < th.target
               /\ th.update_operation = rsequence[version][1]
        /\ th.pc = "L136" =>
               /\ version > th.target
               /\ th.update_operation = rsequence[version][2]
        /\ th.pc = "L137" =>
               /\ th.from > th.target
               /\ th.update_operation = rsequence[version + 1][2]
        /\ th.pc = "L139" => version = th.target
        /\ th.pc = "done" =>
               /\ th.steps = Abs(th.target - th.from)
               /\ th.result = Content(th.target)

\* every call that was made has returned
AllReturned == \A t \in Threads : threads[t].pc = "done"

\* C16: read cost and direction.  With one call at a time, read_version(v)
\* called with the cursor at c moves self.version one at a time toward v,
\* never outside the interval between c and v, applying forward operations
\* at index cursor when c < v and reverse operations at index cursor-1 when
\* c > v; it returns with self.version = v after exactly |v - c| steps, and
\* it does return.
C16_ReadCost ==
    /\ [][ exclusive =>
             \A t \in Threads :
                 /\ OnCourse(t)'
                 /\ (Busy(t) /\ version' # version) =>
                        /\ Abs(version' - version) = 1
                        /\ Abs(threads[t].target - version')
                               = Abs(threads[t].target - version) - 1
                 /\ (threads[t].pc # "done" /\ threads'[t].pc = "done") =>
                        version' = threads[t].target ]_vars
    /\ exclusive => <>AllReturned

\* a call that walked backward over the whole log
C16_Witness ==
    /\ exclusive
    /\ \E t \in Threads :
           /\ threads[t].pc = "done"
           /\ threads[t].from = 2 /\ threads[t].target = 0
           /\ threads[t].steps = 2
           /\ version = 0

\* C19: cursor race.  With exclusive access per call every read_version
\* returns the content of the version it was asked for and leaves
\* self.stack the content at self.version; the witness is a state two
\* interleaved calls reach in which a call has returned another content and
\* self.stack is not the content at self.version.
C19_ExclusiveSafe ==
    exclusive =>
        /\ \A t \in Threads :
               /\ threads[t].pc # "raised"
               /\ threads[t].pc = "done" =>
                      threads[t].result = Content(threads[t].target)
        /\ (\A t \in Threads : ~Busy(t)) => RetList(stack) = Content(version)

C19_Race ==
    /\ ~exclusive
    /\ AllReturned
    /\ threads[1].target # threads[2].target
    /\ \E t \in Threads : threads[t].result # Content(threads[t].target)
    /\ RetList(stack) # Content(version)

=============================================================================
